---- MODULE Spec2Model ----
(***************************************************************************)
(* Dependency-tracked lazy attributes (meta.DependsOn / HasDependencies)   *)
(* and their use in network.BoltzmannMachine.                              *)
(*                                                                         *)
(* Python values are modelled as follows.                                  *)
(*   - An optional value (a cached slot, the result of a compute function) *)
(*     is a sequence: << >> is None, <<v>> is the value v.                 *)
(*   - A numpy array is a record [shape, data]: shape << >> is a scalar,   *)
(*     <<n>> a vector, <<n, m>> a matrix; data is row-major.               *)
(*   - A descriptor (one DependsOn object) is the pair                     *)
(*     <<declaring class, attribute name>>.                                *)
(***************************************************************************)
EXTENDS Integers, Sequences, FiniteSets, TLC

\* Number of samplers of the network (the constructor argument num_samplers).
NumSamplers == 2

\* Depth at which the interpreter gives up a recursion
\* ("maximum recursion depth exceeded").
RecursionLimit == 6

None == << >>

Some(v) == <<v>>

IsNone(x) == Len(x) = 0

\* ------------------------------------------------------------------------
\* Classes and the descriptors declared in their bodies
\* ------------------------------------------------------------------------

\* The nodes of BoltzmannMachine, in the order of their declaration.
BMDeclared ==
    << "sim_name", "weights_theo", "weights_bio",
       "saturating_synapses_enabled", "biases_theo", "biases_bio",
       "delays", "tso_params", "spike_data", "ordered_spikes",
       "selected_sampler_idx", "dist_marginal_sim", "dist_joint_sim",
       "dist_marginal_theo", "dist_joint_theo" >>

\* The argument list of each @meta.DependsOn(...) of BoltzmannMachine.
BMDependencies(name) ==
    CASE name = "weights_theo"       -> << "weights_bio" >>
      [] name = "weights_bio"        -> << "weights_theo" >>
      [] name = "biases_theo"        -> << "biases_bio" >>
      [] name = "biases_bio"         -> << "biases_theo" >>
      [] name = "ordered_spikes"     -> << "spike_data" >>
      [] name = "dist_marginal_sim"  -> << "spike_data", "selected_sampler_idx" >>
      [] name = "dist_joint_sim"     -> << "spike_data", "selected_sampler_idx" >>
      [] name = "dist_marginal_theo" ->
            << "selected_sampler_idx", "biases_theo", "weights_theo" >>
      [] name = "dist_joint_theo"    ->
            << "selected_sampler_idx", "biases_theo", "weights_theo" >>
      [] OTHER                       -> << >>

\* Client hierarchies of the descriptor framework.
\*   Base declares a settable node A and a node D computed from A; Sub derives
\*   from Base and overrides A.
\*   Left, Right, Top: Left declares A and Right declares A; Mid derives from
\*   Left and declares nothing; Top(Mid, Right) declares D computed from A.
\*   Partial declares A, E computed from A, and F whose dependency "missing"
\*   no class declares.
\*   Diamond declares A, B and C computed from A, and D computed from B and C.
Classes ==
    {"object", "BoltzmannMachine", "Base", "Sub",
     "Left", "Mid", "Right", "Top", "Partial", "Diamond"}

\* klass.__bases__
Bases(k) ==
    CASE k = "BoltzmannMachine" -> << "object" >>
      [] k = "Base"             -> << "object" >>
      [] k = "Sub"              -> << "Base" >>
      [] k = "Left"             -> << "object" >>
      [] k = "Mid"              -> << "Left" >>
      [] k = "Right"            -> << "object" >>
      [] k = "Top"              -> << "Mid", "Right" >>
      [] k = "Partial"          -> << "object" >>
      [] k = "Diamond"          -> << "object" >>
      [] OTHER                  -> << >>

\* The DependsOn attributes of klass.__dict__, in iteration order.
Declared(k) ==
    CASE k = "BoltzmannMachine" -> BMDeclared
      [] k = "Base"             -> << "A", "D" >>
      [] k = "Sub"              -> << "A" >>
      [] k = "Left"             -> << "A" >>
      [] k = "Right"            -> << "A" >>
      [] k = "Top"              -> << "D" >>
      [] k = "Partial"          -> << "A", "E", "F" >>
      [] k = "Diamond"          -> << "A", "B", "C", "D" >>
      [] OTHER                  -> << >>

\* DependsOn._dependencies
Dependencies(d) ==
    CASE d[1] = "BoltzmannMachine"  -> BMDependencies(d[2])
      [] d = << "Base", "D" >>      -> << "A" >>
      [] d = << "Top", "D" >>       -> << "A" >>
      [] d = << "Partial", "E" >>   -> << "A" >>
      [] d = << "Partial", "F" >>   -> << "missing" >>
      [] d = << "Diamond", "B" >>   -> << "A" >>
      [] d = << "Diamond", "C" >>   -> << "A" >>
      [] d = << "Diamond", "D" >>   -> << "B", "C" >>
      [] OTHER                      -> << >>

SeqToSet(s) == { s[i] : i \in 1..Len(s) }

Descriptors == UNION { { <<k, n>> : n \in SeqToSet(Declared(k)) } : k \in Classes }

AttrNames == { d[2] : d \in Descriptors }

\* DependsOn.attr_name; the slot "_" + attr_name of an instance is keyed by it.
AttrName(d) == d[2]

\* ------------------------------------------------------------------------
\* Method resolution order (C3 linearisation) and attribute lookup
\* ------------------------------------------------------------------------

InTail(x, l) == \E i \in 2..Len(l) : l[i] = x

NonEmpty(l) == Len(l) > 0

MinOf(S) == CHOOSE x \in S : \A y \in S : x <= y

RECURSIVE C3Merge(_)
C3Merge(lists) ==
    LET ne == SelectSeq(lists, NonEmpty)
    IN  IF Len(ne) = 0 THEN << >>
        ELSE LET good == { i \in 1..Len(ne) :
                            \A j \in 1..Len(ne) : ~InTail(ne[i][1], ne[j]) }
             IN  IF good = {} THEN << >>
                 ELSE LET h == ne[MinOf(good)][1]
                      IN  <<h>> \o C3Merge([ i \in 1..Len(ne) |->
                                 IF ne[i][1] = h THEN Tail(ne[i]) ELSE ne[i] ])

RECURSIVE Mro(_)
Mro(k) ==
    <<k>> \o C3Merge([ i \in 1..Len(Bases(k)) |-> Mro(Bases(k)[i]) ]
                     \o << Bases(k) >>)

\* type(instance).__mro__ of every class
MroOf == [ k \in Classes |-> Mro(k) ]

\* isinstance(instance, c) for an instance whose type is k
IsInstance(k, c) == \E i \in 1..Len(MroOf[k]) : MroOf[k][i] = c

\* The first class of type(instance).__mro__ that declares each name, as a
\* sequence: empty when no class does.
DeclaringClass ==
    [ k \in Classes |-> [ n \in AttrNames |->
        LET cs == SelectSeq(MroOf[k], LAMBDA c : n \in SeqToSet(Declared(c)))
        IN  IF Len(cs) = 0 THEN << >> ELSE << cs[1] >> ] ]

\* Attribute access by name on an instance of k finds this descriptor.
Resolve(k, name) == << DeclaringClass[k][name][1], name >>

HasAttr(k, name) == Len(DeclaringClass[k][name]) > 0

\* F applied to the value of x, with x evaluated once.
Bind(x, F(_)) == CHOOSE y \in { F(v) : v \in { x } } : TRUE

\* ------------------------------------------------------------------------
\* Binding: DependsOn._propagate_dependencies and the HasDependencies
\* decorator.  The binding state b holds, per descriptor, _influences,
\* _propagated_dependencies and _class ("" while unset); token is the set of
\* classes carrying the checked-token, wipe the set of classes that were given
\* the wipe method, error the exception that ended the binding ("" if none).
\* ------------------------------------------------------------------------

Unbound ==
    [ influences |-> [ d \in Descriptors |-> << >> ],
      propagated |-> [ d \in Descriptors |-> FALSE ],
      dclass     |-> [ d \in Descriptors |-> "" ],
      token      |-> {},
      wipe       |-> {},
      error      |-> "" ]

\* The while loop over to_search: the first class, breadth first over
\* __bases__, whose __dict__ holds dep; None when the loop runs dry.
RECURSIVE SearchDependency(_, _)
SearchDependency(to_search, dep) ==
    IF Len(to_search) = 0 THEN None
    ELSE LET k == Head(to_search)
         IN  IF dep \in SeqToSet(Declared(k)) THEN Some(k)
             ELSE SearchDependency(Tail(to_search) \o Bases(k), dep)

\* The for loop over self._dependencies, from the i-th on.  A dependency that
\* is not found reaches log.error(... dep.__name__ ...) with dep a string,
\* which raises AttributeError.
RECURSIVE PropagateFrom(_, _, _, _)
PropagateFrom(d, klass, i, b) ==
    IF i > Len(Dependencies(d)) THEN b
    ELSE LET dep   == Dependencies(d)[i]
             found == SearchDependency(<<klass>>, dep)
         IN  IF IsNone(found) THEN [ b EXCEPT !.error = "AttributeError" ]
             ELSE PropagateFrom(d, klass, i + 1,
                    [ b EXCEPT !.influences[<< found[1], dep >>] = Append(@, d) ])

\* A _propagate_dependencies that does not look at its flag.
PropagateDependenciesAgain(d, klass, b) ==
    LET b1 == PropagateFrom(d, klass, 1, [ b EXCEPT !.dclass[d] = klass ])
    IN  IF b1.error # "" THEN b1
        ELSE [ b1 EXCEPT !.propagated[d] = TRUE ]

PropagateDependencies(d, klass, b) ==
    IF b.propagated[d] THEN b
    ELSE LET b1 == PropagateFrom(d, klass, 1, [ b EXCEPT !.dclass[d] = klass ])
         IN  IF b1.error # "" THEN b1
             ELSE [ b1 EXCEPT !.propagated[d] = TRUE ]

RECURSIVE BindAttrs(_, _, _)
BindAttrs(klass, i, b) ==
    IF i > Len(Declared(klass)) \/ b.error # "" THEN b
    ELSE BindAttrs(klass, i + 1,
                   PropagateDependencies(<< klass, Declared(klass)[i] >>, klass, b))

RECURSIVE HasDependencies(_, _)
RECURSIVE BindBases(_, _, _)
BindBases(klass, i, b) ==
    IF i > Len(Bases(klass)) \/ b.error # "" THEN b
    ELSE BindBases(klass, i + 1, HasDependencies(Bases(klass)[i], b))

HasDependencies(klass, b) ==
    IF b.error # "" \/ klass \in b.token THEN b
    ELSE LET found == Len(Declared(klass)) > 0
             b1    == BindAttrs(klass, 1, b)
         IN  IF b1.error # "" \/ ~found THEN b1
             ELSE BindBases(klass, 1,
                    [ b1 EXCEPT !.wipe = @ \cup {klass}, !.token = @ \cup {klass} ])

\* The binding state once the modules are imported: every class was decorated
\* when its definition was executed, a base before the classes derived from it.
Imported ==
    HasDependencies("Sub",
        HasDependencies("Base",
            HasDependencies("BoltzmannMachine", Unbound)))

\* The declared dependency graph: n2 names n1 among its dependencies.
DependsDirectly(n2, n1, k) ==
    /\ HasAttr(k, n2)
    /\ n1 \in SeqToSet(Dependencies(Resolve(k, n2)))

\* The nodes that transitively depend on `name`, for an instance of class k.
RECURSIVE Downstream(_, _, _)
Downstream(S, k, fuel) ==
    LET T == S \cup { n \in AttrNames : \E m \in S : DependsDirectly(n, m, k) }
    IN  IF fuel = 0 \/ T = S THEN S ELSE Downstream(T, k, fuel - 1)

Dependents(name, k) ==
    Downstream({ n \in AttrNames : DependsDirectly(n, name, k) }, k,
               Cardinality(AttrNames))

\* ------------------------------------------------------------------------
\* State
\* ------------------------------------------------------------------------

VARIABLES
    bind,       \* the binding state of the descriptors (shared per type)
    klass,      \* type(instance) of the instance
    slots,      \* attribute name -> the cached value "_<name>" of the instance
    samplers,   \* sampler index -> the bias held by that sampler object
    exercised,  \* the attribute names the client code of this run operates on
    last,       \* the last operation: its name, attribute, argument, the
                \* exception it raised ("" if none), the slots it cleared
    other,      \* a second instance the client holds: its type, slots and
                \* samplers (the empty sequence when there is none)
    db,         \* db.current_basename of this process (None: not set up)
    parent,     \* the caller of a function run in a subprocess: its position
                \* in _send_arguments, its local ack, the call's arguments
    child,      \* the subprocess: its position in _recv_arguments, its own
                \* db.current_basename, its local db_data, the arguments it
                \* unpickled, the exception that ended it
    socket,     \* the messages in flight, per direction, in order
    pickled     \* the state __getstate__ returned last (None: none yet)

\* What lies outside the instances.
outside == << db, parent, child, socket, pickled >>

vars == << bind, klass, slots, samplers, exercised, last, other, outside >>

\* ------------------------------------------------------------------------
\* Arrays
\* ------------------------------------------------------------------------

\* An array has a shape, its entries in row-major order, and a dtype; the
\* arrays built from Python floats are of dtype float.
Scalar(x) == [ shape |-> << >>, data |-> << x >>, dtype |-> "float" ]

Vector(s) == [ shape |-> << Len(s) >>, data |-> s, dtype |-> "float" ]

Matrix(n, m, s) == [ shape |-> << n, m >>, data |-> s, dtype |-> "float" ]

\* np.array of Python ints, or np.array(..., dtype=np.int)
AsInt(a) == [ a EXCEPT !.dtype = "int" ]

\* np.empty((n, n)) followed by fill(x)
Filled(n, x) == Matrix(n, n, [ i \in 1..(n * n) |-> x ])

\* w[i, j], indices from 0
At(w, i, j) == w.data[i * w.shape[2] + j + 1]

SamplerIdx == 0..(NumSamplers - 1)

\* utils.fill_diagonal(weights, value): the same matrix with the entries
\* (i, i) replaced.
FillDiagonal(w, x) ==
    [ w EXCEPT !.data = [ p \in 1..Len(w.data) |->
        IF (p - 1) \div w.shape[2] = (p - 1) % w.shape[2] THEN x ELSE w.data[p] ] ]

\* BoltzmannMachine._check_weight_matrix: [val, exc]
CheckWeightMatrix(weights) ==
    LET w == IF weights.shape = << >>
             THEN Filled(NumSamplers, weights.data[1])
             ELSE weights
    IN  IF w.shape # << NumSamplers, NumSamplers >>
        THEN [ val |-> None, exc |-> "AssertionError" ]
        ELSE [ val |-> Some(FillDiagonal(w, 0)), exc |-> "" ]

\* ------------------------------------------------------------------------
\* Samplers (samplers.LIFsampler): each sampler converts with its own
\* calibration; a sampler keeps the bias it was last given, in the units it
\* was given in.
\* ------------------------------------------------------------------------

\* The slope of the calibrated conversion of sampler j.
Alpha(j) == j + 2

\* The offset of the calibrated bias conversion of sampler j.
Offset(j) == j + 1

Quot(x, a) == IF x >= 0 THEN x \div a ELSE -((-x) \div a)

\* Weights are counted in units of 1 / Whole: the whole numbers are the
\* multiples of Whole.
Whole == 12

\* conv_weights[:, j] = ... into an array allocated by np.zeros_like(weights):
\* an array of dtype int keeps the whole part of what is assigned to it.
CastTo(dtype, x) == IF dtype = "int" THEN Quot(x, Whole) * Whole ELSE x

SamplerWeightTheoToBio(j, x) == x * Alpha(j)

SamplerWeightBioToTheo(j, y) == Quot(y, Alpha(j))

SamplerBiasTheoToBio(j, b) == b * Alpha(j) + Offset(j)

SamplerBiasBioToTheo(j, b) == Quot(b - Offset(j), Alpha(j))

\* sampler.bias_theo and sampler.bias_bio of sampler j holding s
SamplerBiasTheo(j, s) ==
    IF s.units = "theo" THEN s.bias ELSE SamplerBiasBioToTheo(j, s.bias)

SamplerBiasBio(j, s) ==
    IF s.units = "bio" THEN s.bias ELSE SamplerBiasTheoToBio(j, s.bias)

\* sampler.db_params.tau_refrac
TauRefrac(j) == 10

\* BoltzmannMachine.convert_weights_bio_to_theo: column j through sampler j
ConvertWeightsBioToTheo(w) ==
    [ w EXCEPT !.data = [ p \in 1..Len(w.data) |->
        CastTo(w.dtype,
               SamplerWeightBioToTheo((p - 1) % w.shape[2], w.data[p])) ] ]

\* BoltzmannMachine.convert_weights_theo_to_bio: column j through sampler j
ConvertWeightsTheoToBio(w) ==
    [ w EXCEPT !.data = [ p \in 1..Len(w.data) |->
        CastTo(w.dtype,
               SamplerWeightTheoToBio((p - 1) % w.shape[2], w.data[p])) ] ]

\* ------------------------------------------------------------------------
\* DependsOn.needs_update and DependsOn.wipe
\* ------------------------------------------------------------------------

\* needs_update reads self._class, which only _propagate_dependencies sets.
ClassUnset(d) == bind.dclass[d] = ""

\* A needs_update that holds whatever the slot holds.
NeedsUpdateAlways(d, s) == TRUE

NeedsUpdate(d, s) ==
    /\ IsInstance(klass, bind.dclass[d])
    /\ IsNone(s[AttrName(d)])

\* descriptor.wipe(instance, force): [slots, exc, log].  depth counts the
\* nested calls; an exception leaves the slots cleared so far cleared.  log
\* lists, in order, the descriptors whose slot the cascade assigned None.
RECURSIVE WipeDescriptor(_, _, _, _)
RECURSIVE WipeInfluences(_, _, _, _)
\* A loop over the influences that visits the first of them only.
WipeFirstInfluence(infl, i, w, depth) ==
    IF i > Len(infl) \/ i > 1 \/ w.exc # "" THEN w
    ELSE Bind(WipeDescriptor(infl[i], w, FALSE, depth),
              LAMBDA w2 : WipeInfluences(infl, i + 1, w2, depth))

WipeInfluences(infl, i, w, depth) ==
    IF i > Len(infl) \/ w.exc # "" THEN w
    ELSE Bind(WipeDescriptor(infl[i], w, FALSE, depth),
              LAMBDA w2 : WipeInfluences(infl, i + 1, w2, depth))

\* A wipe that clears the slot of the descriptor alone.
WipeOwnSlot(d, s, force, depth) ==
    [ slots |-> [ s.slots EXCEPT ![AttrName(d)] = None ], exc |-> "",
      log |-> Append(s.log, d) ]

\* A wipe that clears and cascades whatever the slot holds.
WipeRegardless(d, s, force, depth) ==
    IF depth > RecursionLimit THEN [ s EXCEPT !.exc = "RuntimeError" ]
    ELSE IF ClassUnset(d) THEN [ s EXCEPT !.exc = "AttributeError" ]
    ELSE WipeInfluences(bind.influences[d], 1,
            [ slots |-> [ s.slots EXCEPT ![AttrName(d)] = None ], exc |-> "",
              log |-> Append(s.log, d) ],
            depth + 1)

\* s is the wipe record so far: the slots and the log of the cascade.
WipeDescriptor(d, s, force, depth) ==
    IF depth > RecursionLimit THEN [ s EXCEPT !.exc = "RuntimeError" ]
    ELSE IF ClassUnset(d) THEN [ s EXCEPT !.exc = "AttributeError" ]
    ELSE IF NeedsUpdate(d, s.slots) /\ ~force THEN s
    ELSE WipeInfluences(bind.influences[d], 1,
            [ slots |-> [ s.slots EXCEPT ![AttrName(d)] = None ], exc |-> "",
              log |-> Append(s.log, d) ],
            depth + 1)

\* The wipe record at the start of a cascade over the slots s.
Cascade(s) == [ slots |-> s, exc |-> "", log |-> << >> ]

\* ------------------------------------------------------------------------
\* The compute functions and DependsOn.__get__
\*
\* An evaluation threads a record R through the attribute reads of a
\* function: slots and samplers are the instance as it is so far, calls the
\* descriptors whose function was invoked so far, val the value just produced
\* and exc the exception raised ("" if none).
\* ------------------------------------------------------------------------

Raise(R, e) == [ R EXCEPT !.val = None, !.exc = e ]

Return(R, v) == [ R EXCEPT !.val = v, !.exc = "" ]

\* a[idx] for a vector a and an index array idx
SubVector(a, idx) ==
    [ Vector([ k \in 1..Len(idx.data) |-> a.data[idx.data[k] + 1] ])
        EXCEPT !.dtype = a.dtype ]

\* w[idx][:, idx] for a matrix w and an index array idx
SubMatrix(w, idx) ==
    LET n == Len(idx.data)
    IN  [ Matrix(n, n, [ p \in 1..(n * n) |->
                At(w, idx.data[(p - 1) \div n + 1], idx.data[((p - 1) % n) + 1]) ])
          EXCEPT !.dtype = w.dtype ]

IndexInRange(idx, n) == \A k \in 1..Len(idx.data) : idx.data[k] \in 0..(n - 1)

\* list(set(seq)) for a sequence of non-negative ints.  A set is an
\* open-addressing hash table, here a function from the slots 0..n-1 to the
\* key each holds (None when free); an int hashes to itself, a table starts
\* with 8 slots, and list() walks the slots in order.

EmptyTable(n) == [ p \in 0..(n - 1) |-> None ]

\* The slot where key belongs: the probe sequence starts at hash & mask and
\* goes on with i = 5 * i + perturb + 1, perturb >>= 5.
RECURSIVE SetProbe(_, _, _, _)
SetProbe(t, key, i, perturb) ==
    IF IsNone(t[i]) \/ t[i] = Some(key) THEN i
    ELSE SetProbe(t, key, (5 * i + perturb + 1) % Cardinality(DOMAIN t),
                  perturb \div 32)

\* The keys of the table in slot order, from slot p on.
RECURSIVE TableKeys(_, _)
TableKeys(t, p) ==
    IF p \notin DOMAIN t THEN << >> ELSE t[p] \o TableKeys(t, p + 1)

\* The size of the table after a resize: the first power of two above
\* minused, from the minimal size on.
RECURSIVE GrownSize(_, _)
GrownSize(minused, size) ==
    IF size <= minused THEN GrownSize(minused, 2 * size) ELSE size

RECURSIVE SetAdd(_, _)
RECURSIVE InsertAll(_, _, _)
InsertAll(t, keys, i) ==
    IF i > Len(keys) THEN t ELSE InsertAll(SetAdd(t, keys[i]), keys, i + 1)

\* set.add(key): the table is rebuilt with four times the used slots once
\* two thirds of it are filled.
SetAdd(t, key) ==
    LET n    == Cardinality(DOMAIN t)
        p    == SetProbe(t, key, key % n, key)
        t1   == [ t EXCEPT ![p] = Some(key) ]
        used == Len(TableKeys(t1, 0))
    IN  IF ~IsNone(t[p]) THEN t
        ELSE IF used * 3 >= n * 2
        THEN InsertAll(EmptyTable(GrownSize(used * 4, 8)), TableKeys(t1, 0), 1)
        ELSE t1

ListOfSet(seq) == TableKeys(InsertAll(EmptyTable(8), seq, 1), 0)

\* The marginals array after the loop of dist_marginal_sim over selection idx.
MarginalCounts(idx, sd) ==
    [ p \in 1..Len(idx.data) |->
        IF \E k \in 1..Len(idx.data) : idx.data[k] = p - 1
        THEN Len(sd.spiketrains[1][p]) * TauRefrac(p - 1)
        ELSE 0 ]

RECURSIVE GetAttr(_, _, _)
RECURSIVE FuncGet(_, _, _)

\* A __get__ that returns what the function computed without storing it.
GetAttrUncached(name, R, depth) ==
    LET d == Resolve(klass, name)
    IN  IF depth > RecursionLimit THEN Raise(R, "RuntimeError")
        ELSE IF ClassUnset(d) THEN Raise(R, "AttributeError")
        ELSE IF NeedsUpdate(d, R.slots)
        THEN Bind(FuncGet(d, [ R EXCEPT !.calls = Append(@, d) ], depth + 1),
                  LAMBDA r : IF r.exc # "" THEN Raise(r, r.exc) ELSE r)
        ELSE Return(R, R.slots[name])

\* instance.<name>: DependsOn.__get__ of the descriptor the name resolves to
GetAttr(name, R, depth) ==
    LET d == Resolve(klass, name)
    IN  IF depth > RecursionLimit THEN Raise(R, "RuntimeError")
        ELSE IF ClassUnset(d) THEN Raise(R, "AttributeError")
        ELSE IF NeedsUpdate(d, R.slots)
        THEN Bind(FuncGet(d, [ R EXCEPT !.calls = Append(@, d) ], depth + 1),
                  LAMBDA r : IF r.exc # "" THEN Raise(r, r.exc)
                             ELSE [ r EXCEPT !.slots[name] = r.val ])
        ELSE Return(R, R.slots[name])

\* BoltzmannMachine.weights_theo and weights_bio without a value: the other
\* representation, converted.
FuncGetWeights(n, R, depth) ==
    IF n = "weights_theo"
    THEN Bind(GetAttr("weights_bio", R, depth),
              LAMBDA r : IF r.exc # "" THEN r
                         ELSE Return(r, Some(ConvertWeightsBioToTheo(r.val[1]))))
    ELSE Bind(GetAttr("weights_theo", R, depth),
              LAMBDA r : IF r.exc # "" THEN r
                         ELSE Return(r, Some(ConvertWeightsTheoToBio(r.val[1]))))

\* BoltzmannMachine.biases_theo and biases_bio without a value: the biases
\* the samplers report.
FuncGetBiases(n, R) ==
    IF n = "biases_theo"
    THEN Return(R, Some(Vector([ p \in 1..NumSamplers |->
                                 SamplerBiasTheo(p - 1, R.samplers[p - 1]) ])))
    ELSE Return(R, Some(Vector([ p \in 1..NumSamplers |->
                                 SamplerBiasBio(p - 1, R.samplers[p - 1]) ])))

\* BoltzmannMachine.ordered_spikes
FuncGetOrderedSpikes(R, depth) ==
    Bind(GetAttr("spike_data", R, depth),
         LAMBDA r : IF r.exc # "" THEN r
                    ELSE IF IsNone(r.val) THEN Raise(r, "TypeError")
                    ELSE Return(r, Some([ fn  |-> "get_ordered_spike_idx",
                                          arg |-> r.val[1].spiketrains[1] ])))

\* The body of dist_marginal_sim once the selection idx is read (in r1).
MarginalSimBody(idx, r1, depth) ==
    IF Len(idx.data) > 0 /\ idx.data[1] \notin SamplerIdx
    THEN Raise(r1, "IndexError")
    ELSE Bind(GetAttr("spike_data", r1, depth),
              LAMBDA r2 :
                IF r2.exc # "" THEN r2
                ELSE IF IsNone(r2.val) THEN Raise(r2, "TypeError")
                ELSE IF \/ ~IndexInRange(idx, NumSamplers)
                        \/ ~IndexInRange(idx, Len(r2.val[1].spiketrains[1]))
                        \/ ~IndexInRange(idx, Len(idx.data))
                THEN Raise(r2, "IndexError")
                ELSE Return(r2, Some(
                        [ num |-> Vector(MarginalCounts(idx, r2.val[1])),
                          den |-> r2.val[1].duration[1] ])))

\* BoltzmannMachine.dist_marginal_sim
FuncGetMarginalSim(R, depth) ==
    Bind(GetAttr("selected_sampler_idx", R, depth),
         LAMBDA r1 : IF r1.exc # "" THEN r1
                     ELSE MarginalSimBody(r1.val[1], r1, depth))

\* The call of cutils.get_bm_joint_sim once the ordered spikes are read (r2).
JointSimCall(idx, r2, depth) ==
    Bind(GetAttr("spike_data", r2, depth),
         LAMBDA r3 :
            IF r3.exc # "" THEN r3
            ELSE IF IsNone(r3.val) THEN Raise(r3, "TypeError")
            ELSE Return(r3, Some(
                    [ fn       |-> "get_bm_joint_sim",
                      spikes   |-> r2.val[1],
                      idx      |-> idx,
                      tau      |-> [ k \in 1..Len(idx.data) |->
                                       TauRefrac(idx.data[k]) ],
                      duration |-> r3.val[1].duration[1] ])))

\* The body of dist_joint_sim once the selection idx is read (in r1).
JointSimBody(idx, r1, depth) ==
    IF ~IndexInRange(idx, NumSamplers) THEN Raise(r1, "IndexError")
    ELSE Bind(GetAttr("ordered_spikes", r1, depth),
              LAMBDA r2 : IF r2.exc # "" THEN r2
                          ELSE JointSimCall(idx, r2, depth))

\* BoltzmannMachine.dist_joint_sim
FuncGetJointSim(R, depth) ==
    Bind(GetAttr("selected_sampler_idx", R, depth),
         LAMBDA r1 : IF r1.exc # "" THEN r1
                     ELSE JointSimBody(r1.val[1], r1, depth))

\* A call of the solver with the weights and biases of all the samplers.
TheoCallUnrestricted(n, idx, r2, depth) ==
    Bind(GetAttr("weights_theo", r2, depth),
         LAMBDA r3 :
            IF r3.exc # "" THEN r3
            ELSE Return(r3, Some(
                    [ fn      |-> IF n = "dist_marginal_theo"
                                  THEN "get_bm_marginal_theo"
                                  ELSE "get_bm_joint_theo",
                      weights |-> r3.val[1],
                      biases  |-> r2.val[1] ])))

\* The call of the solver once the biases are read (in r2).
TheoCall(n, idx, r2, depth) ==
    Bind(GetAttr("weights_theo", r2, depth),
         LAMBDA r3 :
            IF r3.exc # "" THEN r3
            ELSE Return(r3, Some(
                    [ fn      |-> IF n = "dist_marginal_theo"
                                  THEN "get_bm_marginal_theo"
                                  ELSE "get_bm_joint_theo",
                      weights |-> SubMatrix(r3.val[1], idx),
                      biases  |-> SubVector(r2.val[1], idx) ])))

\* The body of the dist_*_theo functions once the selection is read (in r1).
TheoBody(n, idx, r1, depth) ==
    Bind(GetAttr("biases_theo", r1, depth),
         LAMBDA r2 : IF r2.exc # "" THEN r2
                     ELSE IF ~IndexInRange(idx, Len(r2.val[1].data))
                     THEN Raise(r2, "IndexError")
                     ELSE TheoCall(n, idx, r2, depth))

\* BoltzmannMachine.dist_marginal_theo and dist_joint_theo
FuncGetTheo(n, R, depth) ==
    Bind(GetAttr("selected_sampler_idx", R, depth),
         LAMBDA r1 : IF r1.exc # "" THEN r1
                     ELSE TheoBody(n, r1.val[1], r1, depth))

\* The node D of the client hierarchy: a function of self.A
FuncGetD(R, depth) ==
    Bind(GetAttr("A", R, depth),
         LAMBDA r : IF r.exc # "" THEN r
                    ELSE Return(r, Some([ fn |-> "D", arg |-> r.val ])))

\* The settable nodes of the client hierarchies.
Settable ==
    { << "Base", "A" >>, << "Sub", "A" >>, << "Left", "A" >>,
      << "Right", "A" >>, << "Partial", "A" >>, << "Diamond", "A" >> }

\* The body of a computed node of the client hierarchies reads its
\* dependencies by name, in the order it declares them; a name that no class
\* of the instance's type declares is no attribute of the instance.
RECURSIVE ReadDependencies(_, _, _, _, _)
ReadDependencies(deps, i, seen, R, depth) ==
    IF i > Len(deps) THEN Return(R, Some(seen))
    ELSE IF deps[i] \notin AttrNames \/ ~HasAttr(klass, deps[i])
    THEN Raise(R, "AttributeError")
    ELSE Bind(GetAttr(deps[i], R, depth),
              LAMBDA r : IF r.exc # "" THEN r
                         ELSE ReadDependencies(deps, i + 1,
                                               Append(seen, r.val), r, depth))

\* A computed node of the client hierarchies: a function of the values read
FuncGetNode(d, R, depth) ==
    Bind(ReadDependencies(Dependencies(d), 1, << >>, R, depth),
         LAMBDA r : IF r.exc # "" THEN r
                    ELSE Return(r, Some([ fn |-> AttrName(d), args |-> r.val[1] ])))

\* self._func(instance): the function called without a value
FuncGet(d, R, depth) ==
    LET n == AttrName(d)
    IN
    CASE d[1] = "BoltzmannMachine" /\ n \in { "weights_theo", "weights_bio" } ->
            FuncGetWeights(n, R, depth)
      [] d[1] = "BoltzmannMachine" /\ n \in { "biases_theo", "biases_bio" } ->
            FuncGetBiases(n, R)
      [] d[1] = "BoltzmannMachine" /\ n = "tso_params" ->
            Return(R, Some([ U |-> 1, u |-> 1 ]))
      [] d[1] = "BoltzmannMachine" /\ n = "spike_data" ->
            Return(R, None)
      [] d[1] = "BoltzmannMachine" /\ n = "ordered_spikes" ->
            FuncGetOrderedSpikes(R, depth)
      [] d[1] = "BoltzmannMachine" /\ n = "dist_marginal_sim" ->
            FuncGetMarginalSim(R, depth)
      [] d[1] = "BoltzmannMachine" /\ n = "dist_joint_sim" ->
            FuncGetJointSim(R, depth)
      [] d[1] = "BoltzmannMachine"
         /\ n \in { "dist_marginal_theo", "dist_joint_theo" } ->
            FuncGetTheo(n, R, depth)
      [] d \in Settable ->
            Return(R, None)
      [] d = << "Base", "D" >> ->
            FuncGetD(R, depth)
      [] d[1] \in { "Top", "Partial", "Diamond" } ->
            FuncGetNode(d, R, depth)
      [] OTHER ->
            \* sim_name, saturating_synapses_enabled, delays and
            \* selected_sampler_idx take a second argument without a default
            Raise(R, "TypeError")

\* BoltzmannMachine.biases_theo and biases_bio with a value: izip(biases,
\* self.samplers) stops with the shorter of the two, and a value that is no
\* list or array is repeated.  The function has no return statement.
FuncSetBiases(n, R, v) ==
    LET given(j) == v.shape = << >> \/ j < Len(v.data)
        b(j)     == IF v.shape = << >> THEN v.data[1] ELSE v.data[j + 1]
        units    == IF n = "biases_theo" THEN "theo" ELSE "bio"
    IN  [ R EXCEPT !.val = None, !.exc = "",
                   !.samplers = [ j \in SamplerIdx |->
                        IF given(j) THEN [ units |-> units, bias |-> b(j) ]
                        ELSE R.samplers[j] ] ]

\* A setter branch that checks the shape and keeps the diagonal as given.
FuncSetWeightsKeepDiagonal(R, v) ==
    LET w == IF v.shape = << >> THEN Filled(NumSamplers, v.data[1]) ELSE v
    IN  IF w.shape # << NumSamplers, NumSamplers >>
        THEN Raise(R, "AssertionError")
        ELSE Return(R, Some(w))

\* A setter branch that stores the conversion of the checked matrix.
FuncSetWeightsConverting(R, v) ==
    LET c == CheckWeightMatrix(v)
    IN  IF c.exc # "" THEN Raise(R, c.exc)
        ELSE Return(R, Some(ConvertWeightsTheoToBio(c.val[1])))

\* BoltzmannMachine.weights_theo and weights_bio with a value
FuncSetWeights(R, v) ==
    LET c == CheckWeightMatrix(v)
    IN  IF c.exc # "" THEN Raise(R, c.exc) ELSE Return(R, c.val)

\* self._func(instance, value): the function called with a value
FuncSet(d, R, v) ==
    LET n == AttrName(d)
    IN
    CASE d[1] = "BoltzmannMachine" /\ n = "sim_name" ->
            \* a name that does not start with "pyNN." is given the prefix
            Return(R, Some([ v EXCEPT !.prefixed = TRUE ]))
      [] d[1] = "BoltzmannMachine" /\ n \in { "weights_theo", "weights_bio" } ->
            FuncSetWeights(R, v)
      [] d[1] = "BoltzmannMachine" /\ n = "saturating_synapses_enabled" ->
            IF v \in BOOLEAN THEN Return(R, Some(v))
            ELSE Raise(R, "AssertionError")
      [] d[1] = "BoltzmannMachine" /\ n \in { "biases_theo", "biases_bio" } ->
            FuncSetBiases(n, R, v)
      [] d[1] = "BoltzmannMachine" /\ n = "delays" ->
            IF v.shape = << >>
            THEN Return(R, Some(Filled(NumSamplers, v.data[1])))
            ELSE Return(R, Some(v))
      [] d[1] = "BoltzmannMachine" /\ n = "tso_params" ->
            Return(R, Some(v))
      [] d[1] = "BoltzmannMachine" /\ n = "spike_data" ->
            IF IsNone(v.spiketrains) \/ IsNone(v.duration)
            THEN Raise(R, "AssertionError")
            ELSE Return(R, Some(v))
      [] d[1] = "BoltzmannMachine" /\ n = "selected_sampler_idx" ->
            Return(R, Some(AsInt(Vector(ListOfSet(v)))))
      [] d \in Settable ->
            Return(R, Some(v))
      [] OTHER ->
            \* ordered_spikes, the dist_* nodes and the computed nodes of the
            \* client hierarchies take no second argument
            Raise(R, "TypeError")

\* instance.<name> read from outside: [slots, samplers, calls, val, exc]
GetValue(name, s, smp) ==
    GetAttr(name, [ slots |-> s, samplers |-> smp, calls |-> << >>,
                    val |-> None, exc |-> "" ], 1)

\* The rest of __set__ once the forced wipe is done (in w).
SetAfterWipe(d, v, w, smp) ==
    IF w.exc # ""
    THEN [ slots |-> w.slots, samplers |-> smp, calls |-> << >>,
           val |-> None, exc |-> w.exc ]
    ELSE Bind(FuncSet(d, [ slots |-> w.slots, samplers |-> smp,
                           calls |-> << d >>, val |-> None, exc |-> "" ], v),
              LAMBDA r : IF r.exc # "" THEN r
                         ELSE [ r EXCEPT !.slots[AttrName(d)] = r.val ])

\* A __set__ that calls the function first and wipes only once it returned.
SetValueCheckFirst(name, v, s, smp) ==
    Bind(FuncSet(Resolve(klass, name),
                 [ slots |-> s, samplers |-> smp, calls |-> << >>,
                   val |-> None, exc |-> "" ], v),
         LAMBDA c :
            IF c.exc # "" THEN c
            ELSE Bind(WipeDescriptor(Resolve(klass, name), Cascade(s), TRUE, 1),
                      LAMBDA w : SetAfterWipe(Resolve(klass, name), v, w, smp)))

\* A __set__ whose wipe is not forced.
SetValueUnforced(name, v, s, smp) ==
    Bind(WipeDescriptor(Resolve(klass, name), Cascade(s), FALSE, 1),
         LAMBDA w : SetAfterWipe(Resolve(klass, name), v, w, smp))

\* instance.<name> = v: DependsOn.__set__
SetValue(name, v, s, smp) ==
    Bind(WipeDescriptor(Resolve(klass, name), Cascade(s), TRUE, 1),
         LAMBDA w : SetAfterWipe(Resolve(klass, name), v, w, smp))

\* A wipe(name) that clears every slot of the instance.
WipeEverySlot(name, s) ==
    [ slots |-> [ n \in DOMAIN s |-> None ], exc |-> "", log |-> << >> ]

\* instance.wipe(name): the method HasDependencies adds to a class
WipeValue(name, s) ==
    IF \A i \in 1..Len(MroOf[klass]) : MroOf[klass][i] \notin bind.wipe
    THEN [ Cascade(s) EXCEPT !.exc = "AttributeError" ]
    ELSE IF name \notin SeqToSet(Declared(klass))
    THEN [ Cascade(s) EXCEPT !.exc = "AssertionError" ]
    ELSE WipeDescriptor(<< klass, name >>, Cascade(s), FALSE, 1)

\* ------------------------------------------------------------------------
\* Inputs
\* ------------------------------------------------------------------------

\* The values assigned to the settable node of the Base/Sub hierarchy.
MaxValue == 4

WrongShape == Vector(<< 1, 2 >>)

\* One spike train per sampler.
SpikeTrains == [ p \in 1..NumSamplers |-> IF p = 1 THEN << 1, 2 >> ELSE << 3 >> ]

SpikeData == [ spiketrains |-> Some(SpikeTrains), duration |-> Some(10) ]

NoDuration == [ spiketrains |-> Some(SpikeTrains), duration |-> None ]

\* The values the client code assigns to each attribute.
SetInputs(name) ==
    CASE name = "sim_name"       -> { [ prefixed |-> FALSE, base |-> "nest" ] }
      [] name = "weights_theo"   -> { Scalar(1), WrongShape }
      [] name = "weights_bio"    ->
            { Matrix(NumSamplers, NumSamplers,
                     [ p \in 1..(NumSamplers * NumSamplers) |-> 12 * p ]),
              AsInt(Filled(NumSamplers, Whole)),
              WrongShape }
      [] name = "saturating_synapses_enabled" -> { FALSE }
      [] name = "biases_theo"    ->
            { Vector([ p \in 1..NumSamplers |-> p ]), Vector(<< 7 >>) }
      [] name = "biases_bio"     -> { Scalar(3) }
      [] name = "delays"         -> { Scalar(2) }
      [] name = "tso_params"     -> { [ U |-> 2, u |-> 1 ] }
      [] name = "spike_data"     -> { SpikeData, NoDuration }
      [] name = "selected_sampler_idx" ->
            { << 1, 0, 1 >>, << 1 >>, << 8, 0 >> }
      [] name = "A"              -> 1..MaxValue
      [] OTHER                   -> { 0 }

\* The attribute names an instance of class k answers to.
Names(k) == { n \in AttrNames : HasAttr(k, n) }

\* The client code of one run works on the weights, biases and theoretical
\* distributions, or on the spike data, the empirical distributions and the
\* plain settings; both work on the selection.
Conversions ==
    { "weights_theo", "weights_bio", "biases_theo", "biases_bio",
      "selected_sampler_idx", "dist_marginal_theo", "dist_joint_theo" }

Measurements ==
    { "spike_data", "ordered_spikes", "selected_sampler_idx",
      "dist_marginal_sim", "dist_joint_sim", "sim_name",
      "saturating_synapses_enabled", "delays", "tso_params" }

Statistics ==
    { "spike_data", "selected_sampler_idx", "dist_marginal_sim",
      "dist_joint_sim", "dist_marginal_theo", "dist_joint_theo" }

\* ------------------------------------------------------------------------
\* Construction: BoltzmannMachine.__init__ assigns, in this order, sim_name,
\* weights_theo, saturating_synapses_enabled, delays (0.1 ms, the unit of the
\* model) and selected_sampler_idx; the samplers start with a zero bias.
\* ------------------------------------------------------------------------

InitAssignments ==
    << [ name |-> "sim_name", value |-> [ prefixed |-> TRUE, base |-> "nest" ] ],
       [ name |-> "weights_theo",
         value |-> Filled(NumSamplers, 0) ],
       [ name |-> "saturating_synapses_enabled", value |-> TRUE ],
       [ name |-> "delays", value |-> Scalar(1) ],
       [ name |-> "selected_sampler_idx",
         value |-> [ i \in 1..NumSamplers |-> i - 1 ] ] >>

RECURSIVE Assign(_, _, _)
Assign(as, i, inst) ==
    IF i > Len(as) THEN inst
    ELSE Bind(SetValue(as[i].name, as[i].value, inst.slots, inst.samplers),
              LAMBDA r : Assign(as, i + 1, r))

\* No slot of the instance holds a value yet.
Empty(k) == [ n \in Names(k) |-> None ]

\* The slots an operation found present and left absent.
Cleared(s, t) == { n \in DOMAIN s : ~IsNone(s[n]) /\ IsNone(t[n]) }

\* No database is set up and no function runs in a subprocess.
NoSubprocess ==
    /\ db = None
    /\ parent = << >>
    /\ child = << >>
    /\ socket = << >>
    /\ pickled = None

Idle == [ op |-> "init", name |-> "", arg |-> None, exc |-> "", cleared |-> {} ]

Init ==
    /\ bind = Imported
    /\ klass = "BoltzmannMachine"
    /\ exercised \in { Conversions, Measurements, Statistics }
    /\ \E c \in { Assign(InitAssignments, 1,
                    [ slots    |-> Empty("BoltzmannMachine"),
                      samplers |-> [ j \in SamplerIdx |->
                                        [ units |-> "theo", bias |-> 0 ] ] ]) } :
           /\ slots = c.slots
           /\ samplers = c.samplers
    /\ last = Idle
    /\ NoSubprocess
    /\ other = << >>

\* ------------------------------------------------------------------------
\* Operations on the instance
\* ------------------------------------------------------------------------

\* Every cached value is kept with the node and so seen by every instance.
ShareSlots(o, r) ==
    IF o = << >> THEN o ELSE [ o EXCEPT !.slots = r.slots ]

\* __get__, __set__ and wipe read and assign attributes of the instance they
\* are called with (getattr / setattr on instance): what an operation did,
\* r, is written to no other instance o.
KeepOthers(o, r) == o

Get(name) ==
    \E r \in { GetValue(name, slots, samplers) } :
        /\ slots' = r.slots
        /\ other' = KeepOthers(other, r)
        /\ last' = [ op |-> "get", name |-> name, arg |-> None, exc |-> r.exc,
                     cleared |-> Cleared(slots, r.slots) ]
        /\ UNCHANGED << bind, klass, samplers, exercised, outside >>

Set(name, v) ==
    \E r \in { SetValue(name, v, slots, samplers) } :
        /\ slots' = r.slots
        /\ other' = KeepOthers(other, r)
        /\ samplers' = r.samplers
        /\ last' = [ op |-> "set", name |-> name, arg |-> Some(v),
                     exc |-> r.exc, cleared |-> Cleared(slots, r.slots) ]
        /\ UNCHANGED << bind, klass, exercised, outside >>

Wipe(name) ==
    \E w \in { WipeValue(name, slots) } :
        /\ slots' = w.slots
        /\ other' = KeepOthers(other, w)
        /\ last' = [ op |-> "wipe", name |-> name, arg |-> None, exc |-> w.exc,
                     cleared |-> Cleared(slots, w.slots) ]
        /\ UNCHANGED << bind, klass, samplers, exercised, outside >>

DoGet == \E n \in exercised : Get(n)

DoSet == \E n \in exercised : \E v \in SetInputs(n) : Set(n, v)

DoWipe == \E n \in exercised : Wipe(n)

Next == DoGet \/ DoSet \/ DoWipe

Spec == Init /\ [][Next]_vars

\* ------------------------------------------------------------------------
\* A hierarchy of two decorated classes: Base declares the settable node A
\* and the node D computed from A, Sub(Base) overrides A and inherits D.
\* The instance is one of Base or of Sub, with no slot assigned.
\* ------------------------------------------------------------------------

InitH ==
    /\ bind = Imported
    /\ klass \in { "Base", "Sub" }
    /\ exercised = { "A", "D" }
    /\ slots = Empty(klass)
    /\ samplers = << >>
    /\ last = Idle
    /\ NoSubprocess
    /\ other = << >>

SpecH == InitH /\ [][Next]_vars

\* ------------------------------------------------------------------------
\* Two instances: the client holds an instance of Base or Sub and a second
\* one of Base or Sub, both with no slot assigned, operates on one of them
\* and turns to the other at any time.
\* ------------------------------------------------------------------------

Turn ==
    /\ other # << >>
    /\ klass' = other.klass
    /\ slots' = other.slots
    /\ samplers' = other.samplers
    /\ other' = [ klass |-> klass, slots |-> slots, samplers |-> samplers ]
    /\ last' = [ op |-> "turn", name |-> "", arg |-> None, exc |-> "",
                 cleared |-> {} ]
    /\ UNCHANGED << bind, exercised, outside >>

NextT == Turn \/ DoGet \/ DoSet \/ DoWipe

InitT ==
    /\ bind = Imported
    /\ klass \in { "Base", "Sub" }
    /\ exercised = { "A", "D" }
    /\ slots = Empty(klass)
    /\ samplers = << >>
    /\ last = Idle
    /\ NoSubprocess
    /\ \E k \in { "Base", "Sub" } :
          other = [ klass |-> k, slots |-> Empty(k), samplers |-> << >> ]

SpecT == InitT /\ [][NextT]_vars

\* ------------------------------------------------------------------------
\* Binding as an operation.  Nothing is decorated at the start; the client
\* code decorates the classes of the instance's hierarchy in any order and
\* any number of times, before and between the operations on the instance.
\* A decoration that raises leaves the binding state it reached.
\* ------------------------------------------------------------------------

\* The classes of the instance's type that can be decorated.
Decoratable == SeqToSet(MroOf[klass]) \ { "object" }

Decorate(k) ==
    \E b \in { HasDependencies(k, bind) } :
        /\ bind' = [ b EXCEPT !.error = "" ]
        /\ last' = [ op |-> "decorate", name |-> k, arg |-> None,
                     exc |-> b.error, cleared |-> {} ]
        /\ UNCHANGED << klass, slots, samplers, exercised, other, outside >>

DoDecorate == \E k \in Decoratable : Decorate(k)

NextB == DoDecorate \/ DoGet \/ DoSet \/ DoWipe

InitB ==
    /\ bind = Unbound
    /\ klass \in { "Sub", "Top", "Partial", "Diamond" }
    /\ exercised = Names(klass)
    /\ slots = Empty(klass)
    /\ samplers = << >>
    /\ last = Idle
    /\ NoSubprocess
    /\ other = << >>

SpecB == InitB /\ [][NextB]_vars

\* ------------------------------------------------------------------------
\* Running a function in a subprocess with the database:
\* RunInSubprocessWithDatabase._send_arguments in the calling process and
\* _recv_arguments in the subprocess, one statement per step, over a socket
\* that delivers the messages of each direction in order.  recv blocks while
\* nothing is in flight.
\* ------------------------------------------------------------------------

\* The databases the calling process works with.
DbNames == { "calib", "test", "scratch" }

\* The arguments of the calls.
CallArgs == { "args1", "args2" }

NoCall == [ pc |-> "idle", ack |-> None, args |-> None ]

NoChild ==
    [ pc |-> "none", current_basename |-> None, db_data |-> None,
      args |-> None, exc |-> "" ]

Quiet == [ to_child |-> << >>, to_parent |-> << >> ]

\* A _send_arguments that pickles and sends the arguments right after the
\* database name.
SendArgumentsAtOnce(p, sock, basename) ==
    CASE p.pc = "send_json" ->
            [ parent |-> [ p EXCEPT !.pc = "super" ],
              socket |-> [ sock EXCEPT !.to_child =
                              Append(@, [ json |-> basename ]) ] ]
      [] p.pc = "super" ->
            [ parent |-> [ p EXCEPT !.pc = "sent" ],
              socket |-> [ sock EXCEPT !.to_child =
                              Append(@, [ pickle |-> p.args[1] ]) ] ]
      [] OTHER ->
            [ parent |-> p, socket |-> sock ]

\* _send_arguments, the statement at p.pc: send_json of the database name,
\* recv of the answer, the assertion on it, and the inherited
\* _send_arguments, which pickles and sends the arguments.
SendArguments(p, sock, basename) ==
    CASE p.pc = "send_json" ->
            [ parent |-> [ p EXCEPT !.pc = "recv" ],
              socket |-> [ sock EXCEPT !.to_child =
                              Append(@, [ json |-> basename ]) ] ]
      [] p.pc = "recv" /\ Len(sock.to_parent) > 0 ->
            [ parent |-> [ p EXCEPT !.pc = "assert",
                                    !.ack = Some(Head(sock.to_parent)) ],
              socket |-> [ sock EXCEPT !.to_parent = Tail(@) ] ]
      [] p.pc = "assert" ->
            [ parent |-> [ p EXCEPT !.pc = IF p.ack = Some("ACK")
                                           THEN "super" ELSE "raised" ],
              socket |-> sock ]
      [] p.pc = "super" ->
            [ parent |-> [ p EXCEPT !.pc = "sent" ],
              socket |-> [ sock EXCEPT !.to_child =
                              Append(@, [ pickle |-> p.args[1] ]) ] ]
      [] OTHER ->
            [ parent |-> p, socket |-> sock ]

\* A _recv_arguments that answers before it sets the database up.
RecvArgumentsAckFirst(c, sock) ==
    CASE c.pc = "assert" ->
            [ child |-> IF IsNone(c.current_basename)
                        THEN [ c EXCEPT !.pc = "recv_json" ]
                        ELSE [ c EXCEPT !.pc = "raised",
                                        !.exc = "AssertionError" ],
              socket |-> sock ]
      [] c.pc = "recv_json" /\ Len(sock.to_child) > 0 ->
            [ child |-> [ c EXCEPT !.pc = "send",
                                   !.db_data = Some(Head(sock.to_child)) ],
              socket |-> [ sock EXCEPT !.to_child = Tail(@) ] ]
      [] c.pc = "send" ->
            [ child |-> [ c EXCEPT !.pc = "super" ],
              socket |-> [ sock EXCEPT !.to_parent = Append(@, "ACK") ] ]
      [] c.pc = "super" /\ Len(sock.to_child) > 0 ->
            [ child |-> [ c EXCEPT !.pc = "setup",
                                   !.args = Some(Head(sock.to_child).pickle) ],
              socket |-> [ sock EXCEPT !.to_child = Tail(@) ] ]
      [] c.pc = "setup" ->
            [ child |-> [ c EXCEPT !.pc = "received",
                                   !.current_basename =
                                        Some(c.db_data[1].json) ],
              socket |-> sock ]
      [] OTHER ->
            [ child |-> c, socket |-> sock ]

\* _recv_arguments, the statement at c.pc: the assertion that no database is
\* set up, recv_json, db.setup with the name received, send of the ACK, and
\* the inherited _recv_arguments, which receives and unpickles the arguments.
RecvArguments(c, sock) ==
    CASE c.pc = "assert" ->
            [ child |-> IF IsNone(c.current_basename)
                        THEN [ c EXCEPT !.pc = "recv_json" ]
                        ELSE [ c EXCEPT !.pc = "raised",
                                        !.exc = "AssertionError" ],
              socket |-> sock ]
      [] c.pc = "recv_json" /\ Len(sock.to_child) > 0 ->
            [ child |-> [ c EXCEPT !.pc = "setup",
                                   !.db_data = Some(Head(sock.to_child)) ],
              socket |-> [ sock EXCEPT !.to_child = Tail(@) ] ]
      [] c.pc = "setup" ->
            [ child |-> [ c EXCEPT !.pc = "send",
                                   !.current_basename =
                                        Some(c.db_data[1].json) ],
              socket |-> sock ]
      [] c.pc = "send" ->
            [ child |-> [ c EXCEPT !.pc = "super" ],
              socket |-> [ sock EXCEPT !.to_parent = Append(@, "ACK") ] ]
      [] c.pc = "super" /\ Len(sock.to_child) > 0 ->
            [ child |-> [ c EXCEPT !.pc = "received",
                                   !.args = Some(Head(sock.to_child).pickle) ],
              socket |-> [ sock EXCEPT !.to_child = Tail(@) ] ]
      [] OTHER ->
            [ child |-> c, socket |-> sock ]

\* The calling process sets up another database between two calls.
Setup ==
    /\ parent.pc = "idle"
    /\ \E name \in DbNames : Some(name) # db /\ db' = Some(name)
    /\ UNCHANGED << bind, klass, slots, samplers, exercised, last, other,
                    parent, child, socket, pickled >>

\* A call: the subprocess is started and the caller enters _send_arguments.
\* The subprocess starts with no database set up, unless the code it ran on
\* its start set one up.
Call ==
    /\ parent.pc = "idle"
    /\ \E a \in CallArgs :
          parent' = [ pc |-> "send_json", ack |-> None, args |-> Some(a) ]
    /\ \E b \in { None } \cup { Some(name) : name \in DbNames } :
          child' = [ NoChild EXCEPT !.pc = "assert", !.current_basename = b ]
    /\ socket' = Quiet
    /\ UNCHANGED << bind, klass, slots, samplers, exercised, last, other, db,
                    pickled >>

ParentStep ==
    \E r \in { SendArguments(parent, socket, db[1]) } :
        /\ r.parent # parent
        /\ parent' = r.parent
        /\ socket' = r.socket
        /\ UNCHANGED << bind, klass, slots, samplers, exercised, last, other,
                        db, child, pickled >>

ChildStep ==
    \E r \in { RecvArguments(child, socket) } :
        /\ r.child # child
        /\ child' = r.child
        /\ socket' = r.socket
        /\ UNCHANGED << bind, klass, slots, samplers, exercised, last, other,
                        db, parent, pickled >>

\* The call is over in the calling process: the arguments went through, or
\* the subprocess ended with an exception.
Finish ==
    /\ \/ parent.pc = "sent" /\ child.pc = "received"
       \/ child.pc = "raised"
    /\ parent' = NoCall
    /\ child' = NoChild
    /\ socket' = Quiet
    /\ last' = [ op |-> "call", name |-> "", arg |-> parent.args,
                 exc |-> child.exc, cleared |-> {} ]
    /\ UNCHANGED << bind, klass, slots, samplers, exercised, other, db,
                    pickled >>

NextS == Setup \/ Call \/ ParentStep \/ ChildStep \/ Finish

InitS ==
    /\ bind = Imported
    /\ klass = "Base"
    /\ exercised = {}
    /\ slots = Empty(klass)
    /\ samplers = << >>
    /\ last = Idle
    /\ other = << >>
    /\ db = Some("calib")
    /\ parent = NoCall
    /\ child = NoChild
    /\ socket = Quiet
    /\ pickled = None

SpecS == InitS /\ [][NextS]_vars

\* ------------------------------------------------------------------------
\* Pickling: BoltzmannMachine.__getstate__ and __setstate__.  The state is
\* the mapping __getstate__ returns, its values as the attributes yield them
\* (None for a spike_data that was never assigned); the calibration and
\* parameter ids address records of the database and are left out.
\* __setstate__ runs on a new object, which has no attribute at all.
\* ------------------------------------------------------------------------

\* The attributes __getstate__ reads, in its order.
StateAttrs ==
    << "weights_theo", "biases_theo", "delays", "selected_sampler_idx",
       "sim_name", "spike_data", "saturating_synapses_enabled", "tso_params" >>

RECURSIVE ReadState(_, _, _, _)
ReadState(names, i, state, R) ==
    IF i > Len(names) THEN Return(R, Some(state))
    ELSE Bind(GetAttr(names[i], R, 1),
              LAMBDA r : IF r.exc # "" THEN r
                         ELSE ReadState(names, i + 1,
                                        state @@ (names[i] :> r.val), r))

\* instance.__getstate__(): [slots, samplers, calls, val, exc], val the state
GetState(s, smp, basename) ==
    ReadState(StateAttrs, 1, ("current_basename" :> basename),
              [ slots |-> s, samplers |-> smp, calls |-> << >>,
                val |-> None, exc |-> "" ])

\* The object pickle hands to __setstate__: no slot, no samplers.
Blank ==
    [ slots |-> Empty("BoltzmannMachine"), samplers |-> << >>, exc |-> "",
      calls |-> << >>, val |-> None ]

\* The assignments of __setstate__ after __init__, in its order; the
\* selection is handed over as the array it was read as.
StateAssignments(state) ==
    << [ name |-> "selected_sampler_idx",
         value |-> Some(state["selected_sampler_idx"][1].data) ],
       [ name |-> "weights_theo", value |-> state["weights_theo"] ],
       [ name |-> "biases_theo", value |-> state["biases_theo"] ],
       [ name |-> "delays", value |-> state["delays"] ],
       [ name |-> "spike_data", value |-> state["spike_data"] ],
       [ name |-> "tso_params", value |-> state["tso_params"] ],
       [ name |-> "saturating_synapses_enabled",
         value |-> state["saturating_synapses_enabled"] ] >>

\* The assignments from the i-th on, up to the first that raises.  The
\* function of spike_data returns None for the value None.
RECURSIVE Restore(_, _, _)
Restore(as, i, inst) ==
    IF i > Len(as) \/ inst.exc # "" THEN inst
    ELSE IF IsNone(as[i].value)
    THEN Bind(WipeDescriptor(Resolve(klass, as[i].name), Cascade(inst.slots),
                             TRUE, 1),
              LAMBDA w : Restore(as, i + 1,
                                 [ inst EXCEPT !.slots = w.slots,
                                               !.exc = w.exc ]))
    ELSE Bind(SetValue(as[i].name, as[i].value[1], inst.slots, inst.samplers),
              LAMBDA r : Restore(as, i + 1, r))

\* self.__init__(num_samplers, sim_name, neuron_parameters_db_ids) on inst
Construct(state, inst) ==
    Assign([ InitAssignments EXCEPT ![1].value = state["sim_name"][1] ], 1,
           [ inst EXCEPT !.samplers = [ j \in SamplerIdx |->
                                          [ units |-> "theo", bias |-> 0 ] ] ])

\* A __setstate__ that compares the database names once the instance is
\* initialised.
SetStateInitFirst(state, basename, inst) ==
    Bind(Construct(state, inst),
         LAMBDA c : IF state["current_basename"] # basename
                    THEN [ c EXCEPT !.exc = "Exception" ]
                    ELSE Restore(StateAssignments(state), 1, c))

\* instance.__setstate__(state) on the object inst, with basename the
\* db.current_basename of the process
SetState(state, basename, inst) ==
    IF state["current_basename"] # basename
    THEN [ inst EXCEPT !.exc = "Exception" ]
    ELSE Restore(StateAssignments(state), 1, Construct(state, inst))

\* pickle.dumps(instance)
Dump ==
    \E r \in { GetState(slots, samplers, db) } :
        /\ slots' = r.slots
        /\ pickled' = IF r.exc = "" THEN r.val ELSE pickled
        /\ last' = [ op |-> "getstate", name |-> "", arg |-> None,
                     exc |-> r.exc, cleared |-> {} ]
        /\ UNCHANGED << bind, klass, samplers, exercised, other, db, parent,
                        child, socket >>

\* pickle.loads of the state dumped last: a new object is created and handed
\* to __setstate__; the client keeps it as its second instance.
Load ==
    /\ ~IsNone(pickled)
    /\ \E r \in { SetState(pickled[1], db, Blank) } :
          /\ other' = [ klass |-> klass, slots |-> r.slots,
                        samplers |-> r.samplers ]
          /\ last' = [ op |-> "setstate", name |-> "", arg |-> pickled,
                       exc |-> r.exc, cleared |-> {} ]
    /\ UNCHANGED << bind, klass, slots, samplers, exercised, outside >>

NextP == DoSet \/ Setup \/ Dump \/ Load

InitP ==
    /\ bind = Imported
    /\ klass = "BoltzmannMachine"
    /\ exercised = { "biases_theo", "delays" }
    /\ \E c \in { Assign(InitAssignments, 1,
                    [ slots    |-> Empty("BoltzmannMachine"),
                      samplers |-> [ j \in SamplerIdx |->
                                        [ units |-> "theo", bias |-> 0 ] ] ]) } :
           /\ slots = c.slots
           /\ samplers = c.samplers
    /\ last = Idle
    /\ other = << >>
    /\ db = None
    /\ parent = NoCall
    /\ child = NoChild
    /\ socket = Quiet
    /\ pickled = None

SpecP == InitP /\ [][NextP]_vars

\* ------------------------------------------------------------------------
\* BoltzmannMachine.create: the connection lists handed to the simulator,
\* one projection per synapse type.  The population, the sources and the
\* synapse model are objects of the simulator and are left out; tau_rec is
\* named by the sampler and the synapse type it is taken from.
\* ------------------------------------------------------------------------

\* weight_is[wt]: the entries of the type, in row-major order
WeightIs(wt, w) ==
    [ q \in 1..Len(w.data) |->
        IF wt = "exc" THEN w.data[q] > 0 ELSE w.data[q] < 0 ]

\* weights *= 1000.
TimesThousand(w) ==
    [ w EXCEPT !.data = [ q \in 1..Len(w.data) |-> 1000 * w.data[q] ],
               !.dtype = "float" ]

\* The weights a projection of type wt takes its entries from: the copy of
\* weights_bio, replaced by the number -1 for the inhibitory type, scaled for
\* the native synapse model.
ProjectionWeights(wt, w, sat, nest) ==
    LET weights == IF wt = "inh" THEN AsInt(Scalar(-1)) ELSE w
    IN  IF sat /\ nest THEN TimesThousand(weights) ELSE weights

\* The loop over np.nonzero(weight_is[wt]) from the q-th entry on; indexing a
\* number raises TypeError.
RECURSIVE ConnectionList(_, _, _, _, _, _, _)
ConnectionList(q, wt, mask, weights, delays, sat, list) ==
    IF q > Len(mask) THEN [ val |-> Some(list), exc |-> "" ]
    ELSE IF ~mask[q]
    THEN ConnectionList(q + 1, wt, mask, weights, delays, sat, list)
    ELSE IF weights.shape = << >> THEN [ val |-> None, exc |-> "TypeError" ]
    ELSE LET i_pre  == (q - 1) \div NumSamplers
             i_post == (q - 1) % NumSamplers
         IN  ConnectionList(q + 1, wt, mask, weights, delays, sat,
                Append(list,
                    [ i_pre   |-> i_pre,
                      i_post  |-> i_post,
                      weight  |-> At(weights, i_pre, i_post),
                      delay   |-> IF delays.shape = << >> THEN delays.data[1]
                                  ELSE At(delays, i_pre, i_post),
                      tau_rec |-> IF sat THEN Some(<< i_post, wt >>)
                                  ELSE None ]))

\* One pass of the loop over the synapse types: no projection (None) when no
\* weight is of the type.
Projection(wt, w, delays, sat, nest) ==
    IF \A q \in 1..Len(w.data) : ~WeightIs(wt, w)[q]
    THEN [ val |-> None, exc |-> "" ]
    ELSE ConnectionList(1, wt, WeightIs(wt, w),
                        ProjectionWeights(wt, w, sat, nest), delays, sat, << >>)

\* What create has read, and the projections made from it.
Projections(w, delays, sat, nest, R) ==
    Bind(Projection("exc", w, delays, sat, nest),
         LAMBDA e :
            IF e.exc # "" THEN Raise(R, e.exc)
            ELSE Bind(Projection("inh", w, delays, sat, nest),
                      LAMBDA i :
                         IF i.exc # "" THEN Raise(R, i.exc)
                         ELSE Return(R, Some([ exc |-> e.val,
                                               inh |-> i.val ]))))

\* instance.create(duration, _nest_optimization): [slots, samplers, calls,
\* val, exc], val the projections
Create(s, smp, nest) ==
    Bind(GetValue("weights_bio", s, smp),
      LAMBDA r1 : IF r1.exc # "" THEN r1 ELSE
        Bind(GetAttr("delays", r1, 1),
          LAMBDA r2 : IF r2.exc # "" THEN r2 ELSE
            Bind(GetAttr("tso_params", r2, 1),
              LAMBDA r3 : IF r3.exc # "" THEN r3 ELSE
                Bind(GetAttr("saturating_synapses_enabled", r3, 1),
                  LAMBDA r4 : IF r4.exc # "" THEN r4 ELSE
                    Projections(r1.val[1], r2.val[1], r4.val[1], nest, r4)))))

\* The biological weights the client code connects: positive ones, both
\* signs, negative ones, some and all of them zero.
ConnectionWeights ==
    { Matrix(NumSamplers, NumSamplers,
             [ q \in 1..(NumSamplers * NumSamplers) |-> 12 * q ]),
      Matrix(NumSamplers, NumSamplers,
             [ q \in 1..(NumSamplers * NumSamplers) |->
                  IF q % 2 = 0 THEN (0 - 6) * q ELSE 12 * q ]),
      Matrix(NumSamplers, NumSamplers,
             [ q \in 1..(NumSamplers * NumSamplers) |-> (0 - 6) * q ]),
      Matrix(NumSamplers, NumSamplers,
             [ q \in 1..(NumSamplers * NumSamplers) |->
                  IF q % 2 = 0 THEN 0 ELSE 12 ]),
      Filled(NumSamplers, 0) }

SetConnectionWeights ==
    \E n \in DOMAIN slots \cap { "weights_bio" } :
        \E v \in ConnectionWeights : Set(n, v)

DoCreate ==
    \E nest \in BOOLEAN :
        \E r \in { Create(slots, samplers, nest) } :
            /\ slots' = r.slots
            /\ last' = [ op |-> "create", name |-> "",
                         arg |-> Some([ nest |-> nest, projections |-> r.val ]),
                         exc |-> r.exc, cleared |-> {} ]
            /\ UNCHANGED << bind, klass, samplers, exercised, other, outside >>

NextC == DoSet \/ SetConnectionWeights \/ DoCreate

InitC ==
    /\ bind = Imported
    /\ klass = "BoltzmannMachine"
    /\ exercised = { "delays", "saturating_synapses_enabled", "tso_params" }
    /\ \E c \in { Assign(InitAssignments, 1,
                    [ slots    |-> Empty("BoltzmannMachine"),
                      samplers |-> [ j \in SamplerIdx |->
                                        [ units |-> "theo", bias |-> 0 ] ] ]) } :
           /\ slots = c.slots
           /\ samplers = c.samplers
    /\ last = Idle
    /\ NoSubprocess
    /\ other = << >>

SpecC == InitC /\ [][NextC]_vars

\* ------------------------------------------------------------------------
\* Properties of the cache of one BoltzmannMachine instance
\* ------------------------------------------------------------------------

\* The instance as it is, as the start of an evaluation.
Here ==
    [ slots |-> slots, samplers |-> samplers, calls |-> << >>,
      val |-> None, exc |-> "" ]

\* The nodes of the instance that declare dependencies.
Computed == { n \in Names(klass) : Len(Dependencies(Resolve(klass, n))) > 0 }

\* The cached value of n is what its function yields from the instance as it
\* is now.
Fresh(n) ==
    LET r == FuncGet(Resolve(klass, n), Here, 1)
    IN  r.exc = "" /\ r.val = slots[n]

WeightsPair == { "weights_theo", "weights_bio" }

BiasesPair == { "biases_theo", "biases_bio" }

\* C1: no staleness.  After any sequence of set, get and wipe, every present
\* slot that its function filled without a value (the getter branch) holds
\* what that function yields from the current values of the instance: the
\* biases what the samplers report, ordered_spikes and the dist_* nodes the
\* call on the current spike data, selection, biases and weights.  Of the two
\* weight representations one is written and one converted; when both are
\* present, at least one is the conversion of the other, so no state holds an
\* old representation next to a new one.
C1_NoStaleness ==
    /\ \A n \in Computed \ WeightsPair : ~IsNone(slots[n]) => Fresh(n)
    /\ (\A n \in WeightsPair : ~IsNone(slots[n]))
            => (\E n \in WeightsPair : Fresh(n))

\* C1 case: weights written in theoretical units after construction, read in
\* biological units, a bias given to a sampler, and the theoretical marginals
\* read from all of them.
C1_Witness ==
    /\ slots["weights_theo"] = Some(FillDiagonal(Filled(NumSamplers, 1), 0))
    /\ slots["weights_bio"] =
            Some(ConvertWeightsTheoToBio(FillDiagonal(Filled(NumSamplers, 1), 0)))
    /\ samplers[0].bias # 0
    /\ ~IsNone(slots["dist_marginal_theo"])
    /\ ~IsNone(slots["biases_bio"])

\* C2: invalidation completeness.  When set(A, v) returns, whether the slot
\* of A held a value before the call or not, the slot of every node that
\* transitively depends on A (A itself apart) is absent; and a slot that is
\* absent becomes present only in a read, or in a set of that very node.
C2_InvalidationComplete ==
    [][ /\ (last'.op = "set" /\ last'.exc = "")
            => \A n \in Dependents(last'.name, klass) \ { last'.name } :
                    IsNone(slots'[n])
        /\ \A n \in Names(klass) :
              (IsNone(slots[n]) /\ ~IsNone(slots'[n]))
                  => \/ last'.op = "get"
                     \/ last'.op = "set" /\ last'.name = n
      ]_vars

\* C2 case: biases_theo is set while its own slot is absent and the slot of
\* biases_bio, which depends on it, holds a value; the call clears that slot.
C2_Witness ==
    /\ last.op = "set" /\ last.name = "biases_theo" /\ last.exc = ""
    /\ last.cleared = { "biases_bio" }

\* C3: frame of a write.  set(A, v) and wipe(A), whether they return or
\* raise, leave the slot of every node that is neither A nor a transitive
\* dependent of A as it was.
C3_Frame ==
    [][ last'.op \in { "set", "wipe" }
            => \A n \in Names(klass) \ ({ last'.name } \cup Dependents(last'.name, klass)) :
                    slots'[n] = slots[n]
      ]_vars

\* C3 case: set(weights_theo) clears the slots downstream of the weights
\* while the biases, the selection and the other weight-independent slots
\* hold values.
C3_Witness ==
    /\ last.op = "set" /\ last.name = "weights_theo" /\ last.exc = ""
    /\ { "weights_bio", "dist_joint_theo" } \subseteq last.cleared
    /\ ~IsNone(slots["biases_theo"])
    /\ ~IsNone(slots["biases_bio"])
    /\ ~IsNone(slots["selected_sampler_idx"])

DistTheo == { "dist_marginal_theo", "dist_joint_theo" }

\* C4: a failed write is rejected atomically.  set(weights_theo, m) and
\* set(weights_bio, m) with m of another shape than (num_samplers,
\* num_samplers) raise, and the slots of the written node, of the other
\* representation and of dist_marginal_theo and dist_joint_theo are what they
\* were before the call.
C4_RejectedAtomically ==
    [][ (/\ last'.op = "set"
         /\ last'.name \in WeightsPair
         /\ CheckWeightMatrix(last'.arg[1]).exc # "")
            => /\ last'.exc # ""
               /\ \A n \in WeightsPair \cup DistTheo : slots'[n] = slots[n]
      ]_vars

\* C5: a read of weights_theo or weights_bio while both slots are absent
\* (which leaves both absent) ends with an outcome that is no error.
C5_NoDataYet ==
    (/\ last.op = "get"
     /\ last.name \in WeightsPair
     /\ \A n \in WeightsPair : IsNone(slots[n]))
        => last.exc = ""

\* The other member of the pair of n.
Other(n) ==
    CHOOSE m \in WeightsPair \cup BiasesPair :
        m # n /\ (m \in WeightsPair <=> n \in WeightsPair)

\* A scalar stands for one value per sampler.
Broadcast(v) ==
    IF v.shape = << >> THEN Vector([ p \in 1..NumSamplers |-> v.data[1] ]) ELSE v

\* A value the node accepts: for the weights a scalar or a matrix of one row
\* and one column per sampler, for the biases a scalar or one bias per sampler.
ValidValue(name, v) ==
    IF name \in WeightsPair THEN CheckWeightMatrix(v).exc = ""
    ELSE IF name \in BiasesPair
    THEN v.shape = << >> \/ v.shape = << NumSamplers >>
    ELSE TRUE

\* The value a read is to return once v was written to the node.
Written(name, v) ==
    IF name \in BiasesPair THEN Some(Broadcast(v))
    ELSE FuncSet(Resolve(klass, name), Here, v).val

\* The slot of n, absent before the step, holds a value after it only if the
\* step is a read or a set of n.
PresentByReadOrOwnSet(n) ==
    (IsNone(slots[n]) /\ ~IsNone(slots'[n]))
        => \/ last'.op = "get"
           \/ last'.op = "set" /\ last'.name = n

\* C6: dual-representation exclusivity.  For the pairs (weights_theo,
\* weights_bio) and (biases_theo, biases_bio): when set of one member with a
\* valid value returns, its slot holds the normalized written value and the
\* slot of the other member is absent; the other member becomes present only
\* by a later read.
C6_Exclusive ==
    [][ /\ (/\ last'.op = "set" /\ last'.exc = ""
            /\ last'.name \in WeightsPair \cup BiasesPair
            /\ ValidValue(last'.name, last'.arg[1]))
               => /\ slots'[last'.name] = Written(last'.name, last'.arg[1])
                  /\ IsNone(slots'[Other(last'.name)])
        /\ \A n \in WeightsPair \cup BiasesPair : PresentByReadOrOwnSet(n)
      ]_vars

\* Every sampler holds its bias of v, in the units of node n.
SamplersHold(n, v, smp) ==
    \A j \in SamplerIdx :
        smp[j] = [ units |-> IF n = "biases_theo" THEN "theo" ELSE "bio",
                   bias  |-> Broadcast(v).data[j + 1] ]

\* C6 as the code has it: for the weights the statement above; when set of
\* biases_theo or biases_bio with a valid value returns, the slots of both
\* members are absent and the samplers hold the written biases; a member of either pair becomes
\* present only by a later read (or a set of that member).
C6_ExclusiveWeights ==
    [][ /\ (last'.op = "set" /\ last'.exc = "" /\ last'.name \in WeightsPair)
               => /\ slots'[last'.name] = CheckWeightMatrix(last'.arg[1]).val
                  /\ IsNone(slots'[Other(last'.name)])
        /\ (/\ last'.op = "set" /\ last'.exc = "" /\ last'.name \in BiasesPair
            /\ ValidValue(last'.name, last'.arg[1]))
               => /\ \A n \in BiasesPair : IsNone(slots'[n])
                  /\ SamplersHold(last'.name, last'.arg[1], samplers')
        /\ \A n \in WeightsPair \cup BiasesPair : PresentByReadOrOwnSet(n)
      ]_vars

\* C6 case: weights_bio is written while the slot of weights_theo holds a
\* value, and the write leaves weights_theo absent.
C6_Witness ==
    /\ last.op = "set" /\ last.name = "weights_bio" /\ last.exc = ""
    /\ "weights_theo" \in last.cleared
    /\ ~IsNone(slots["weights_bio"])

\* C7: read-your-write.  A get(name) that directly follows a set(name, v)
\* that returned, on any settable node, returns the normalized v.
C7_ReadYourWrite ==
    [][ (/\ last.op = "set" /\ last.exc = ""
         /\ last'.op = "get" /\ last'.name = last.name)
            => /\ last'.exc = ""
               /\ slots'[last.name] = Written(last.name, last.arg[1])
      ]_vars

\* A second get of the attribute last read, as the instance is now.
SecondGet == GetValue(last.name, slots, samplers)

\* The second get returns the cached value and does not call the function of
\* the node.
Memoized ==
    /\ SecondGet.exc = ""
    /\ SecondGet.val = slots[last.name]
    /\ SecondGet.slots = slots
    /\ Resolve(klass, last.name) \notin SeqToSet(SecondGet.calls)

\* C8: get idempotence.  For every node, a get that follows a get that
\* returned, with no set or wipe in between, returns the same cached value
\* and does not invoke the function of the node.
C8_Memoized ==
    (last.op = "get" /\ last.exc = "") => Memoized

\* C8 as the code has it: the same, for a first get that returned a value
\* other than None.
C8_MemoizedNotNone ==
    (last.op = "get" /\ last.exc = "" /\ ~IsNone(slots[last.name])) => Memoized

\* C8 case: dist_joint_theo was computed by a get, which also filled the
\* biases and the converted weights it reads.
C8_Witness ==
    /\ last.op = "get" /\ last.name = "dist_joint_theo" /\ last.exc = ""
    /\ ~IsNone(slots["dist_joint_theo"])
    /\ ~IsNone(slots["biases_theo"])

\* C9: a failure leaves the node absent.  When get(name) or set(name, v)
\* raises, the slot of the node is absent afterwards, and a later get calls
\* the function of the node again.
C9_FailureLeavesAbsent ==
    (last.op \in { "get", "set" } /\ last.exc # "")
        => /\ IsNone(slots[last.name])
           /\ SecondGet.calls # << >>
           /\ SecondGet.calls[1] = Resolve(klass, last.name)

\* C9 case: a set of weights_theo raised on the shape of its value while the
\* slot held a value.
C9_Witness ==
    /\ last.op = "set" /\ last.name = "weights_theo"
    /\ last.exc = "AssertionError"
    /\ "weights_theo" \in last.cleared

\* C10: overrides take part in cascades.  On an instance of Sub, which
\* overrides A and inherits D(A) from Base, once set(A, v) returned the slot of
\* D is absent.
C10_OverrideCascades ==
    (klass = "Sub" /\ last.op = "set" /\ last.name = "A" /\ last.exc = "")
        => IsNone(slots["D"])

\* ------------------------------------------------------------------------
\* Properties of the binding
\* ------------------------------------------------------------------------

\* The descriptors holding d in their _influences under the name dep.
RegisteredAt(d, dep) ==
    { u \in Descriptors : u[2] = dep /\ d \in SeqToSet(bind.influences[u]) }

\* C11: binding resolves a dependency name as attribute access does.  For
\* every decorated class k, every node k declares and every dependency name
\* of that node that an instance of k answers to, the node is registered as a
\* dependent of exactly the descriptor the name resolves to along the
\* method-resolution order of k.
C11_UpstreamIsResolved ==
    \A k \in bind.token : \A n \in SeqToSet(Declared(k)) :
        \A dep \in SeqToSet(Dependencies(<< k, n >>)) :
            (dep \in AttrNames /\ HasAttr(k, dep))
                => RegisteredAt(<< k, n >>, dep) = { Resolve(k, dep) }

\* Class k declares a node with a dependency name that neither k nor any of
\* its ancestors declares.
Dangling(k) ==
    \E n \in SeqToSet(Declared(k)) :
        \E dep \in SeqToSet(Dependencies(<< k, n >>)) :
            dep \notin AttrNames \/ ~HasAttr(k, dep)

\* C12: an unresolved dependency name is a binding error.  Decorating a class
\* that declares a node whose dependency name neither the class nor any
\* ancestor declares fails, at decoration time, with the dedicated binding
\* error.
C12_UnresolvedNameIsBindingError ==
    (last.op = "decorate" /\ Dangling(last.name)) => last.exc = "BindingError"

NoDuplicates(q) == \A i, j \in 1..Len(q) : i # j => q[i] # q[j]

\* The binding state after HasDependencies(k) is applied in state b.
Applied(k, b) == [ HasDependencies(k, b) EXCEPT !.error = "" ]

Count(q, x) == Cardinality({ i \in 1..Len(q) : q[i] = x })

\* C14: the diamond.  On an instance of the decorated class Diamond (B and C
\* computed from A, D computed from B and C), a write to A returns without an
\* exception and leaves B, C and D absent, its cascade assigns None to the
\* slot of D at most once, and the read of D that follows invokes the
\* function of each of B, C and D once and no more.
C14_Diamond ==
    [][ ( /\ klass = "Diamond" /\ "Diamond" \in bind.token
          /\ last'.op = "set" /\ last'.name = "A" )
        => /\ last'.exc = ""
           /\ \A n \in { "B", "C", "D" } : IsNone(slots'[n])
           /\ \E w \in { WipeDescriptor(<< "Diamond", "A" >>, Cascade(slots),
                                        TRUE, 1) } :
                 w.exc = "" /\ Count(w.log, << "Diamond", "D" >>) <= 1
           /\ \E g \in { GetValue("D", slots', samplers') } :
                 /\ g.exc = ""
                 /\ \A n \in { "B", "C", "D" } :
                       Count(g.calls, << "Diamond", n >>) = 1 ]_vars

\* A write to A found B, C and D present and cleared the three of them.
C14_Witness ==
    /\ klass = "Diamond"
    /\ last.op = "set" /\ last.name = "A" /\ last.exc = ""
    /\ last.cleared = { "B", "C", "D" }

\* ------------------------------------------------------------------------
\* Properties of the conversion pairs and of the selection
\* ------------------------------------------------------------------------

\* C15: the cyclic pairs terminate.  From every reachable state of the
\* instance, the cascade that a write (forced) or a wipe (not forced) starts
\* on a member of the weights pair or of the biases pair returns without an
\* exception, never reaching the recursion limit, and assigns None to the
\* slot of each node at most once.
C15_CyclesTerminate ==
    \A n \in WeightsPair \cup BiasesPair : \A force \in BOOLEAN :
        \E w \in { WipeDescriptor(Resolve(klass, n), Cascade(slots),
                                  force, 1) } :
            w.exc = "" /\ NoDuplicates(w.log)

\* A wipe of a member of a pair found both members present and cleared both.
C15_Witness ==
    /\ last.op = "wipe" /\ last.exc = ""
    /\ \/ last.name \in WeightsPair /\ WeightsPair \subseteq last.cleared
       \/ last.name \in BiasesPair /\ BiasesPair \subseteq last.cleared

\* C16: the length of a bias value is validated.  A write to biases_theo or
\* biases_bio of a list or array whose length is not the number of samplers
\* raises, and changes neither the bias of any sampler nor any slot.
C16_BiasLengthChecked ==
    [][ ( /\ last'.op = "set" /\ last'.name \in BiasesPair
          /\ last'.arg[1].shape # << >>
          /\ Len(last'.arg[1].data) # NumSamplers )
        => /\ last'.exc # ""
           /\ samplers' = samplers
           /\ slots' = slots ]_vars

\* The value the last of four calls returns: instance.first = x, then
\* y = instance.second, then instance.second = y, then instance.first.
RoundTrip(first, second, x) ==
    Bind(SetValue(first, x, slots, samplers), LAMBDA r1 :
        IF r1.exc # "" THEN r1
        ELSE Bind(GetValue(second, r1.slots, r1.samplers), LAMBDA r2 :
            IF r2.exc # "" THEN r2
            ELSE Bind(SetValue(second, r2.val[1], r2.slots, r2.samplers),
                      LAMBDA r3 :
                IF r3.exc # "" THEN r3
                ELSE GetValue(first, r3.slots, r3.samplers))))

\* C17: the conversions round-trip.  In every reachable state and for every
\* valid weight value x, writing x to one member of the weights pair, reading
\* the other member, writing what was read back to that other member and
\* reading the first member returns x with its diagonal zeroed; the
\* per-sampler conversions are inverse to each other on these values.
C17_RoundTrip ==
    \A first \in WeightsPair : \A x \in SetInputs(first) :
        CheckWeightMatrix(x).exc = ""
            => \E r \in { RoundTrip(first, Other(first), x) } :
                  r.exc = "" /\ r.val = CheckWeightMatrix(x).val

\* C18: the conversion is lazy and runs once.  A write to weights_theo (to
\* biases_theo) invokes the function of no other node and leaves the bio
\* member absent; the first read of the bio member after it invokes the
\* function of the bio member once, and no read of either member after that
\* invokes it again.  A read of either member never clears a bio member that
\* is present, nor invokes its function.
C18_ConvertsOnceOnDemand ==
    [][ \A t \in { "weights_theo", "biases_theo" } :
          \E b \in { Other(t) } : \E f \in { Resolve(klass, Other(t)) } :
            /\ (last'.op = "set" /\ last'.name = t /\ last'.exc = "")
                => /\ SetValue(t, last'.arg[1], slots, samplers).calls
                        = << Resolve(klass, t) >>
                   /\ IsNone(slots'[b])
                   /\ \E g \in { GetValue(b, slots', samplers') } :
                         /\ g.exc = "" /\ Count(g.calls, f) = 1
                         /\ \A m \in { t, b } :
                               Count(GetValue(m, g.slots, g.samplers).calls, f) = 0
            /\ (last'.op = "get" /\ last'.name \in { t, b } /\ ~IsNone(slots[b]))
                => /\ slots'[b] = slots[b]
                   /\ Count(GetValue(last'.name, slots, samplers).calls, f) = 0
      ]_vars

\* weights_bio was read after a write to weights_theo, and holds its
\* conversion.
C18_Witness ==
    /\ last.op = "get" /\ last.name = "weights_bio" /\ last.exc = ""
    /\ slots["weights_theo"] = Some(FillDiagonal(Filled(NumSamplers, 1), 0))
    /\ slots["weights_bio"]
          = Some(ConvertWeightsTheoToBio(slots["weights_theo"][1]))

DistNodes ==
    { "dist_marginal_theo", "dist_joint_theo",
      "dist_marginal_sim", "dist_joint_sim" }

\* C19: a change of the selection invalidates the statistics and nothing
\* else.  After a write to selected_sampler_idx the four distribution nodes
\* are absent, and the slots of weights_theo, weights_bio, biases_theo,
\* biases_bio and spike_data are what they were before the write.
C19_SelectionInvalidatesStatistics ==
    [][ (last'.op = "set" /\ last'.name = "selected_sampler_idx"
         /\ last'.exc = "")
        => /\ \A n \in DistNodes : IsNone(slots'[n])
           /\ \A n \in WeightsPair \cup BiasesPair \cup { "spike_data" } :
                 slots'[n] = slots[n] ]_vars

\* A write to the selection found the four distributions present.
C19_Witness ==
    /\ last.op = "set" /\ last.name = "selected_sampler_idx"
    /\ last.cleared = DistNodes
    /\ ~IsNone(slots["spike_data"])
    /\ ~IsNone(slots["weights_theo"])

\* The sequences that hold the elements of v in another order.
Reordered(v) ==
    { [ i \in 1..Len(v) |-> v[f[i]] ] :
        f \in { g \in [ 1..Len(v) -> 1..Len(v) ] :
                  \A i, j \in 1..Len(v) : i # j => g[i] # g[j] } }

\* C20: the selection is stored as a set in a canonical order.  After a
\* write of the sequence v to selected_sampler_idx, the stored array holds
\* each distinct element of v once and nothing else, and a write of the same
\* elements in any other order would store the same array.
C20_SelectionCanonical ==
    [][ (last'.op = "set" /\ last'.name = "selected_sampler_idx"
         /\ last'.exc = "")
        => \E v \in { last'.arg[1] } :
           \E stored \in { slots'["selected_sampler_idx"][1] } :
              /\ NoDuplicates(stored.data)
              /\ SeqToSet(stored.data) = SeqToSet(v)
              /\ \A u \in Reordered(v) :
                    SetValue("selected_sampler_idx", u, slots,
                             samplers).slots["selected_sampler_idx"]
                        = Some(stored) ]_vars

\* ------------------------------------------------------------------------
\* Properties of the distributions
\* ------------------------------------------------------------------------

\* The selection is stored and names samplers of the network only.
SelectionOfSamplers ==
    /\ ~IsNone(slots["selected_sampler_idx"])
    /\ IndexInRange(slots["selected_sampler_idx"][1], NumSamplers)

\* C21: the empirical marginals are those of the selected samplers.  With
\* spike data stored and a selection that is a subset of the samplers, a read
\* of dist_marginal_sim returns without an exception a vector with one entry
\* per selected sampler, the k-th being the spike count of the k-th selected
\* sampler times its tau_refrac, over the duration.
C21_MarginalsOfSelection ==
    (SelectionOfSamplers /\ ~IsNone(slots["spike_data"]))
        => \E idx \in { slots["selected_sampler_idx"][1].data } :
           \E sd \in { slots["spike_data"][1] } :
           \E g \in { GetValue("dist_marginal_sim", slots, samplers) } :
              /\ g.exc = ""
              /\ g.val = Some(
                    [ num |-> Vector([ k \in 1..Len(idx) |->
                                Len(sd.spiketrains[1][idx[k] + 1])
                                    * TauRefrac(idx[k]) ]),
                      den |-> sd.duration[1] ])

\* The solver call c was given the weights W and the biases B restricted to
\* the selection idx, in the order of idx.
RestrictedTo(c, W, B, idx) ==
    LET k == Len(idx.data)
    IN  /\ c.weights.shape = << k, k >>
        /\ c.biases.shape = << k >>
        /\ \A a \in 0..(k - 1) :
              /\ c.biases.data[a + 1] = B.data[idx.data[a + 1] + 1]
              /\ \A b \in 0..(k - 1) :
                    At(c.weights, a, b)
                        = At(W, idx.data[a + 1], idx.data[b + 1])

C23_WeightsNormalized ==
    [][ (last'.op = "set" /\ last'.name \in WeightsPair /\ last'.exc = "")
        => \E v \in { last'.arg[1] } : \E st \in { slots'[last'.name][1] } :
              /\ st.shape = << NumSamplers, NumSamplers >>
              /\ \A i, j \in SamplerIdx :
                    At(st, i, j) = IF i = j THEN 0
                                   ELSE IF v.shape = << >> THEN v.data[1]
                                   ELSE At(v, i, j) ]_vars

\* A matrix with a non-zero diagonal was written to weights_bio.
C23_Witness ==
    /\ last.op = "set" /\ last.name = "weights_bio" /\ last.exc = ""
    /\ At(last.arg[1], 0, 0) # 0
    /\ At(slots["weights_bio"][1], 0, 0) = 0
    /\ At(slots["weights_bio"][1], 0, 1) = At(last.arg[1], 0, 1)

\* C24: the conversion is column-wise.  For every weight matrix w that a slot
\* of the weights pair holds, the entry (i, j) of
\* convert_weights_theo_to_bio(w) and of convert_weights_bio_to_theo(w) is
\* the conversion of sampler j applied to w[i, j].
C24_ColumnWise ==
    \A n \in WeightsPair :
        ~IsNone(slots[n])
            => \E w \in { slots[n][1] } : \A i, j \in SamplerIdx :
                  /\ At(ConvertWeightsTheoToBio(w), i, j)
                        = SamplerWeightTheoToBio(j, At(w, i, j))
                  /\ At(ConvertWeightsBioToTheo(w), i, j)
                        = SamplerWeightBioToTheo(j, At(w, i, j))

\* ------------------------------------------------------------------------
\* Properties of instances
\* ------------------------------------------------------------------------

C26_WipeInheritedNode ==
    [][ (/\ last'.op = "wipe"
         /\ HasAttr(klass, last'.name)
         /\ last'.name \notin SeqToSet(Declared(klass)))
            => /\ last'.exc = ""
               /\ \A n \in { last'.name } \cup Dependents(last'.name, klass) :
                      IsNone(slots'[n])
               /\ IsNone(slots[last'.name]) => slots' = slots
      ]_vars

\* C27: all ancestor nodes are bound.  Once the decorator has been applied to
\* the type of the instance, every node the instance answers to through an
\* ancestor (a direct base, a mixin, or a base behind an intermediate class
\* that declares no node) is bound: get of the node returns, and set of a
\* settable one returns with every transitive dependent absent.
C27_AncestorNodesBound ==
    klass \in bind.token
        => \A n \in Names(klass) :
              Resolve(klass, n)[1] # klass
                 => /\ ~ClassUnset(Resolve(klass, n))
                    /\ GetValue(n, slots, samplers).exc = ""
                    /\ Resolve(klass, n) \in Settable
                          => \A v \in SetInputs(n) :
                                \E r \in { SetValue(n, v, slots, samplers) } :
                                    /\ r.exc = ""
                                    /\ \A m \in Dependents(n, klass) :
                                          IsNone(r.slots[m])

\* ------------------------------------------------------------------------
\* Properties of the database handshake
\* ------------------------------------------------------------------------

\* The pickled arguments are in flight to the subprocess.
ArgsInFlight ==
    \E i \in 1..Len(socket.to_child) : "pickle" \in DOMAIN socket.to_child[i]

\* C28: ordering of the database handshake.  The caller sends the database
\* name first and the pickled arguments only once it has received the ACK;
\* the subprocess, which must start with no database set up, sets the
\* database up with the name it was sent before it sends the ACK and before
\* it receives the arguments; in no interleaving does the subprocess hold
\* unpickled arguments with no database set up.
C28_HandshakeOrdered ==
    /\ (parent.pc \in { "recv", "assert", "super", "sent" } /\ ~ArgsInFlight
        /\ child.pc \in { "assert", "recv_json" })
          => socket.to_child = << [ json |-> db[1] ] >>
    /\ (ArgsInFlight \/ parent.pc = "sent") => parent.ack = Some("ACK")
    /\ (Len(socket.to_parent) > 0 \/ ~IsNone(parent.ack))
          => child.current_basename = db
    /\ (ArgsInFlight \/ ~IsNone(child.args))
          => /\ child.pc \in { "super", "received" }
             /\ child.current_basename = db
    /\ ~IsNone(child.args) => child.args = parent.args
    /\ child.exc # "" => /\ IsNone(child.db_data)
                         /\ IsNone(child.args)
                         /\ socket.to_parent = << >>

\* The subprocess has unpickled the arguments of a call made after the
\* caller changed its database.
C28_Witness ==
    /\ child.pc = "received"
    /\ child.args = Some("args2")
    /\ child.current_basename = Some("test")
    /\ parent.pc = "sent"
    /\ socket = Quiet

\* ------------------------------------------------------------------------
\* Properties of pickling
\* ------------------------------------------------------------------------

\* C29: restoring into another database is rejected without side effects.
\* __setstate__ raises when the current_basename of the state differs from
\* the name of the database set up now, and the object it was called on is
\* as pickle created it: not initialised, no attribute and no slot written.
C29_MismatchRejectedUntouched ==
    [][ (/\ last'.op = "setstate"
         /\ UNCHANGED outside
         /\ pickled[1]["current_basename"] # db)
            => /\ last'.exc = "Exception"
               /\ other'.slots = Blank.slots
               /\ other'.samplers = Blank.samplers
               /\ slots' = slots /\ samplers' = samplers
      ]_vars

\* A state dumped under one database was loaded under another, after the
\* instance had been written to.
C29_Witness ==
    /\ last.op = "setstate"
    /\ last.exc = "Exception"
    /\ last.arg[1]["current_basename"] = Some("calib")
    /\ db = Some("test")
    /\ last.arg[1]["delays"] = slots["delays"]
    /\ other.samplers = << >>

\* ------------------------------------------------------------------------
\* Properties of the connections
\* ------------------------------------------------------------------------

\* The entries for the pair (i, j) in the projection of type wt that create
\* returned last.
EntriesFor(wt, i, j) ==
    LET made == last.arg[1].projections[1][wt]
    IN  IF IsNone(made) THEN {}
        ELSE { k \in 1..Len(made[1]) :
                  made[1][k].i_pre = i /\ made[1][k].i_post = j }

\* The entry k of the projection of type wt carries the weight derived from
\* the matrix entry x, whatever its sign convention, and the delay of (i, j).
Carries(wt, k, x, i, j) ==
    LET entry  == last.arg[1].projections[1][wt][1][k]
        factor == IF slots["saturating_synapses_enabled"][1]
                     /\ last.arg[1].nest THEN 1000 ELSE 1
    IN  /\ entry.weight \in { factor * x, (0 - factor) * x }
        /\ entry.delay = At(slots["delays"][1], i, j)

\* C30: create builds one connection per nonzero biological weight.  For every
\* pair with a positive weight the excitatory list holds exactly one entry,
\* for every pair with a negative weight the inhibitory list holds exactly
\* one, a zero weight gives no connection; each entry carries the weight
\* derived from the matrix entry of its pair and the delay of its pair; and
\* create returns for matrices that hold negative weights.
C30_OneConnectionPerWeight ==
    last.op = "create"
        => /\ last.exc = ""
           /\ \A i, j \in SamplerIdx :
                 \E x \in { At(slots["weights_bio"][1], i, j) } :
                    /\ Cardinality(EntriesFor("exc", i, j)) = IF x > 0 THEN 1 ELSE 0
                    /\ Cardinality(EntriesFor("inh", i, j)) = IF x < 0 THEN 1 ELSE 0
                    /\ \A k \in EntriesFor("exc", i, j) : Carries("exc", k, x, i, j)
                    /\ \A k \in EntriesFor("inh", i, j) : Carries("inh", k, x, i, j)

============================================================================
